---- MODULE Spec2Model ----
(***************************************************************************)
(* Model of server.js: an authoritative game server with a fixed 50 ms     *)
(* physics tick, a 200 ms inbound delay queue and 200 ms delayed sends.    *)
(*                                                                         *)
(* Time is in milliseconds.  Positions are fixed-point numbers in units of *)
(* 1/SCALE pixel (the source uses IEEE doubles); square roots are integer  *)
(* square roots and quotients are truncated towards zero.                  *)
(***************************************************************************)
EXTENDS Integers, Sequences, FiniteSets, TLC

\* ------------------------------------------------------------ constants
MAP_W == 800
MAP_H == 600
PLAYER_SPEED == 150
PLAYER_R == 16
COIN_R == 10
MAX_COINS == 20
\* PHYS_DT = 0.05 s, kept in milliseconds
PHYS_DT == 50
COIN_SPAWN_INTERVAL == 3000
SIM_LATENCY_MS == 200

\* fixed-point resolution: sub-pixel units per pixel
SCALE == 2 * 5

\* ------------------------------------------------------------ bounds
\* connections accepted over a run
MaxPlayers == 2
\* socket events and clock steps over a run
MaxEvents == 5
\* long suspensions of the process over a run
MaxStalls == 21

\* ------------------------------------------------------------ state
VARIABLES
  now,            \* Date.now()
  nextTickAt,     \* when the setInterval callback is due next
  nextPlayerId,
  players,        \* id -> [x, y, score, input, inputSpeedLoss]
  coins,          \* id -> [x, y]
  nextCoinId,
  lastSpawn,
  inboundQueue,   \* sequence of [processAt, ws, raw, at]
  clients,        \* wss.clients: the connections whose readyState is OPEN
  timers,         \* pending setTimeout callbacks of sendWithLatency, in order
  lastSend,       \* what the sendWithLatency callback that ran last did
  received,       \* ws -> what ws.send was given: welcomes, and whether a snapshot
  tickInfo,       \* history: what the last tick did
  coinClaims,     \* history: coin id -> score increments it has caused
  madeAt,         \* history: when a coin was last created, -1 before the first
  dueAt,          \* history: when a tick last found the spawn interval elapsed
  nEvents,
  nStalls

vars == <<now, nextTickAt, nextPlayerId, players, coins, nextCoinId, lastSpawn,
          inboundQueue, clients, timers, lastSend, received, tickInfo,
          coinClaims, madeAt, dueAt, nEvents, nStalls>>

\* ------------------------------------------------------------ helpers
Abs(a) == IF a < 0 THEN -a ELSE a

Sgn(a) == IF a < 0 THEN -1 ELSE IF a > 0 THEN 1 ELSE 0

\* a / b truncated towards zero (b > 0)
Quot(a, b) == Sgn(a) * (Abs(a) \div b)

Min(a, b) == IF a < b THEN a ELSE b

Max(a, b) == IF a > b THEN a ELSE b

\* Math.sqrt on a non-negative integer, rounded down: lo * lo <= n < hi * hi
RECURSIVE SqrtIn(_, _, _)
SqrtIn(n, lo, hi) ==
  IF hi - lo <= 1 THEN lo
  ELSE LET mid == (lo + hi) \div 2
       IN IF mid * mid <= n THEN SqrtIn(n, mid, hi) ELSE SqrtIn(n, lo, mid)

Sqrt(n) == SqrtIn(n, 0, 46340)

\* the keys of an object with integer keys, in enumeration (ascending) order
Keys(S) ==
  IF S = {} THEN <<>>
  ELSE LET m == CHOOSE a \in S : \A b \in S : b <= a
       IN SelectSeq([i \in 1..m |-> i], LAMBDA i : i \in S)

\* delete obj[k]
Delete(obj, k) == [i \in (DOMAIN obj) \ {k} |-> obj[i]]

\* obj[k] = v
Put(obj, k, v) == [i \in (DOMAIN obj) \cup {k} |-> IF i = k THEN v ELSE obj[i]]

\* variant: the counter is read and left as it is
PostIncrement_Stuck(n) == n

\* the counter after nextPlayerId++ or nextCoinId++
PostIncrement(n) == n + 1

NoInput == [up |-> FALSE, down |-> FALSE, left |-> FALSE, right |-> FALSE, stamp |-> 0]

\* ------------------------------------------------------------ messages
\* A raw payload is [fmt, type, up, down, left, right, stamp].  fmt "bad" is
\* text JSON.parse rejects, fmt "null" the JSON text null.  A member of a
\* parsed object is 0 (absent), 1 (true) or 2 (false); stamp is 0 (absent)
\* or a positive number.
Truthy(v) == v = 1

RawInput(u, d, l, r, st) ==
  [fmt |-> "json", type |-> "input", up |-> u, down |-> d, left |-> l, right |-> r,
   stamp |-> st]

RawLeft == RawInput(0, 0, 1, 0, 0)

RawRight == RawInput(2, 2, 2, 1, 9)

RawBad == [RawInput(0, 0, 0, 0, 0) EXCEPT !.fmt = "bad"]

RawChat == [RawInput(1, 0, 0, 0, 0) EXCEPT !.type = "chat"]

\* the JSON text null: it parses, and reading its type throws
RawNull == [RawInput(0, 0, 1, 0, 0) EXCEPT !.fmt = "null"]

\* the payloads clients send
RawSet == {RawLeft, RawRight, RawBad, RawChat}

\* the payloads clients send in a longer game
PlayRaws == {RawLeft, RawBad, RawChat, RawNull}

\* where Math.random() puts a new player: x in [50, 750), y in [50, 550)
SpawnPos == {<<50 * SCALE, 100 * SCALE>>, <<58 * SCALE, 100 * SCALE>>}

\* where Math.random() puts a new coin: x in [20, 780), y in [20, 580)
CoinPos == {<<42 * SCALE, 100 * SCALE>>}

\* ------------------------------------------------------------ queueInbound
\* variant: the envelope is stamped with the arrival time itself
QueueInboundAt_NoDelay(t) == t

\* processAt: Date.now() + SIM_LATENCY_MS
QueueInboundAt(t) == t + SIM_LATENCY_MS

queueInbound(q, ws, raw, t) ==
  Append(q, [processAt |-> QueueInboundAt(t), ws |-> ws, raw |-> raw, at |-> t])

\* ------------------------------------------------------------ sendWithLatency
\* variant: the callback is due at once
sendWithLatency_Now(tm, ws, msg, t) ==
  Append(tm, [fireAt |-> t, ws |-> ws, msg |-> msg])

\* variant: the newest callback runs first
sendWithLatency_Front(tm, ws, msg, t) ==
  <<[fireAt |-> t + SIM_LATENCY_MS, ws |-> ws, msg |-> msg]>> \o tm

\* setTimeout(cb, SIM_LATENCY_MS): the callback is due SIM_LATENCY_MS after t
sendWithLatency(tm, ws, msg, t) ==
  Append(tm, [fireAt |-> t + SIM_LATENCY_MS, ws |-> ws, msg |-> msg])

\* variant: the callback sends without looking at readyState
CanSend_Always(ws, cl) == TRUE

\* whether the timer callback hands the message to ws.send:
\* ws.readyState === WebSocket.OPEN
CanSend(ws, cl) == ws \in cl

\* ------------------------------------------------------------ broadcastState
Snapshot(ps, cs, t) ==
  [type |-> "snapshot", id |-> 0, t |-> t,
   players |-> [i \in DOMAIN ps |-> [id |-> i, x |-> ps[i].x, y |-> ps[i].y,
                                     score |-> ps[i].score]],
   coins |-> [c \in DOMAIN cs |-> [id |-> c, x |-> cs[c].x, y |-> cs[c].y]]]

RECURSIVE SendAll(_, _, _, _)
SendAll(tm, wss, msg, t) ==
  IF wss = <<>> THEN tm
  ELSE SendAll(sendWithLatency(tm, Head(wss), msg, t), Tail(wss), msg, t)

broadcastState(tm, ps, cs, cl, t) == SendAll(tm, Keys(cl), Snapshot(ps, cs, t), t)

\* ------------------------------------------------------------ handleMsg
\* variant: every text parses
ParseThrows_Never(raw) == FALSE

\* JSON.parse(raw): throws on text that is not JSON
ParseThrows(raw) == raw.fmt = "bad"

\* variant: the envelope is taken for the next connection's
PlayerOf_Next(ws) == ws + 1

\* ws.playerId: the id the connection handler stored on the socket
PlayerOf(ws) == ws

\* handleMsg(ws, msg): the players it leaves; reading msg.type of null throws,
\* which the caller's catch swallows with the players as they were
handleMsg(ps, ws, raw, t) ==
  IF PlayerOf(ws) \notin DOMAIN ps THEN ps
  ELSE IF raw.fmt = "null" THEN ps
  ELSE IF raw.type = "input"
    THEN [ps EXCEPT ![PlayerOf(ws)].input =
            [up |-> Truthy(raw.up), down |-> Truthy(raw.down),
             left |-> Truthy(raw.left), right |-> Truthy(raw.right),
             stamp |-> IF raw.stamp # 0 THEN raw.stamp ELSE t]]
    ELSE ps

\* ------------------------------------------------------------ processInboundQueue
\* variant: an envelope is ready only once its time has passed
Ready_Strict(e, t) == e.processAt < t

\* inboundQueue[i].processAt <= now
Ready(e, t) == e.processAt <= t

\* variant: the handled envelope is left in the queue
Splice_Keep(e, rest) == <<e>> \o rest

\* inboundQueue.splice(i, 1): the queue without the handled envelope e, rest
\* being what follows it
Splice(e, rest) == rest

\* an entry of the drained log: the envelope, and whether handling it changed
\* a player
Handled(e, changed) ==
  [processAt |-> e.processAt, ws |-> e.ws, raw |-> e.raw, at |-> e.at,
   changed |-> changed]

RECURSIVE processInboundQueue(_, _, _)
processInboundQueue(q, ps, t) ==
  IF q = <<>> THEN [queue |-> <<>>, players |-> ps, drained |-> <<>>]
  ELSE LET e == Head(q) IN
    IF Ready(e, t)
    THEN LET ps2 == IF ParseThrows(e.raw) THEN ps ELSE handleMsg(ps, e.ws, e.raw, t)
             rest == processInboundQueue(Tail(q), ps2, t)
         IN [rest EXCEPT !.queue = Splice(e, rest.queue),
                         !.drained = <<Handled(e, ps2 # ps)>> \o rest.drained]
    ELSE LET rest == processInboundQueue(Tail(q), ps, t)
         IN [rest EXCEPT !.queue = <<e>> \o rest.queue]

\* ------------------------------------------------------------ tick: movement
\* v / len for v in {-1, 0, 1} and len = sqrt(len2), in thousandths
UnitK(v, len2) == Quot(v * 1000000, Sqrt(len2 * 1000000))

\* p.inputSpeedLoss || 1, in percent; 0 stands for undefined
SpeedFactor(p) == IF p.inputSpeedLoss = 0 THEN 100 ELSE p.inputSpeedLoss

\* unit * PLAYER_SPEED * dt * speedFactor, in position units
Displacement(unitK, pct) ==
  Quot(Quot(unitK * PLAYER_SPEED * PHYS_DT, 1000) * pct * SCALE, 100000)

ClampX(x) == Max(PLAYER_R * SCALE, Min((MAP_W - PLAYER_R) * SCALE, x))

ClampY(y) == Max(PLAYER_R * SCALE, Min((MAP_H - PLAYER_R) * SCALE, y))

\* whether the movement branch resets inputSpeedLoss for a player that moved
\* (vx, vy); the assignment sits inside the if (vx !== 0 || vy !== 0) block
ResetsSpeedLoss(vx, vy) == vx # 0 \/ vy # 0

\* the body of the forEach over players
MovePlayer(p) ==
  LET inp == p.input
      vx == (IF inp.right THEN 1 ELSE 0) - (IF inp.left THEN 1 ELSE 0)
      vy == (IF inp.down THEN 1 ELSE 0) - (IF inp.up THEN 1 ELSE 0)
      len2 == vx * vx + vy * vy
      moves == vx # 0 \/ vy # 0
      f == SpeedFactor(p)
      x1 == IF moves THEN p.x + Displacement(UnitK(vx, len2), f) ELSE p.x
      y1 == IF moves THEN p.y + Displacement(UnitK(vy, len2), f) ELSE p.y
  IN [p EXCEPT !.x = ClampX(x1), !.y = ClampY(y1),
               !.inputSpeedLoss = IF ResetsSpeedLoss(vx, vy) THEN 100 ELSE @]

MovePlayers(ps) == [i \in DOMAIN ps |-> MovePlayer(ps[i])]

\* ------------------------------------------------------------ tick: player -> player
MinDist == 2 * PLAYER_R * SCALE

\* the share of the overlap p1 is pushed by, as a fraction num / den:
\* 1 - ratio with ratio = p2.score / (p1.score + p2.score + 1)
Share1(s1, s2) == [num |-> (s1 + s2 + 1) - s2, den |-> s1 + s2 + 1]

\* the share of the overlap p2 is pushed by: ratio
Share2(s1, s2) == [num |-> s2, den |-> s1 + s2 + 1]

\* n * overlap * share for the component d of the separation vector
Push(d, dist, overlap, share) == Quot(d * overlap * share.num, dist * share.den)

\* the body of the inner loop for the pair (a, b); log collects what it did
ResolvePair(st, a, b) ==
  LET ps == st.players
      p1 == ps[a]
      p2 == ps[b]
      dx == p2.x - p1.x
      dy == p2.y - p1.y
      d2 == dx * dx + dy * dy
  IN IF d2 < MinDist * MinDist /\ d2 > 0
     THEN LET dist == Sqrt(d2)
              overlap == MinDist - dist
              h1 == Share1(p1.score, p2.score)
              h2 == Share2(p1.score, p2.score)
              q1 == [p1 EXCEPT !.x = @ - Push(dx, dist, overlap, h1),
                               !.y = @ - Push(dy, dist, overlap, h1),
                               !.inputSpeedLoss = 80]
              q2 == [p2 EXCEPT !.x = @ + Push(dx, dist, overlap, h2),
                               !.y = @ + Push(dy, dist, overlap, h2),
                               !.inputSpeedLoss = 80]
          IN [players |-> [ps EXCEPT ![a] = q1, ![b] = q2],
              colls |-> Append(st.colls,
                 [p1 |-> a, p2 |-> b, d2 |-> d2, s1 |-> p1.score, s2 |-> p2.score,
                  m1 |-> (q1.x - p1.x) * (q1.x - p1.x) + (q1.y - p1.y) * (q1.y - p1.y),
                  m2 |-> (q2.x - p2.x) * (q2.x - p2.x) + (q2.y - p2.y) * (q2.y - p2.y),
                  ax |-> q1.x - p1.x, ay |-> q1.y - p1.y,
                  bx |-> q2.x - p2.x, by |-> q2.y - p2.y])]
     ELSE st

\* for (i ...) for (j = i+1 ...) over playerArr = Object.values(players)
RECURSIVE CollideFrom(_, _, _, _)
CollideFrom(st, arr, i, j) ==
  IF i > Len(arr) THEN st
  ELSE IF j > Len(arr) THEN CollideFrom(st, arr, i + 1, i + 2)
  ELSE CollideFrom(ResolvePair(st, arr[i], arr[j]), arr, i, j + 1)

CollidePlayers(ps) ==
  CollideFrom([players |-> ps, colls |-> <<>>], Keys(DOMAIN ps), 1, 2)

\* ------------------------------------------------------------ tick: player -> coins
PickupDist2 == (PLAYER_R + COIN_R) * SCALE * (PLAYER_R + COIN_R) * SCALE

\* variant: the player's centre has to be inside the coin
InReach_CoinOnly(p, c) ==
  (p.x - c.x) * (p.x - c.x) + (p.y - c.y) * (p.y - c.y) <= COIN_R * SCALE * COIN_R * SCALE

InReach(p, c) ==
  (p.x - c.x) * (p.x - c.x) + (p.y - c.y) * (p.y - c.y) <= PickupDist2

\* variant: the coin is left in place for the rest of the scan
AfterAward_Keep(cs, cid) == cs

\* the coins left once a player has scored coin cid: delete coins[cid]
AfterAward(cs, cid) == Delete(cs, cid)

\* the inner for-in over coins for player pid; cids are the keys not yet visited
RECURSIVE PickCoins(_, _, _)
PickCoins(st, pid, cids) ==
  IF cids = <<>> THEN st
  ELSE LET cid == Head(cids) IN
    IF cid \in DOMAIN st.coins /\ InReach(st.players[pid], st.coins[cid])
    THEN PickCoins(
           [players |-> [st.players EXCEPT ![pid].score = @ + 1],
            coins |-> AfterAward(st.coins, cid),
            picks |-> Append(st.picks,
               [coin |-> cid, by |-> pid,
                near |-> {q \in DOMAIN st.players :
                            InReach(st.players[q], st.coins[cid])}])],
           pid, Tail(cids))
    ELSE PickCoins(st, pid, Tail(cids))

\* the outer for-in over players
RECURSIVE PickFrom(_, _)
PickFrom(st, pids) ==
  IF pids = <<>> THEN st
  ELSE PickFrom(PickCoins(st, Head(pids), Keys(DOMAIN st.coins)), Tail(pids))

PickupCoins(ps, cs) ==
  PickFrom([players |-> ps, coins |-> cs, picks |-> <<>>], Keys(DOMAIN ps))

\* ------------------------------------------------------------ tick: spawn
\* whether the spawn branch runs: Date.now() - lastSpawn > COIN_SPAWN_INTERVAL
SpawnDue(t, last) == t - last > COIN_SPAWN_INTERVAL

\* variant: the cap test lets a full population through
BelowCap_Inclusive(cs) == Cardinality(DOMAIN cs) <= MAX_COINS

\* whether the cap leaves room: Object.keys(coins).length < MAX_COINS
BelowCap(cs) == Cardinality(DOMAIN cs) < MAX_COINS

spawnCoin(cs, id, pos) == Put(cs, id, [x |-> pos[1], y |-> pos[2]])

\* variant: the timer is reset only when a coin was made
ResetSpawn_OnSpawn(due, spawns, t, last) == IF spawns THEN t ELSE last

\* lastSpawn after the spawn step: reset whenever the interval had elapsed
ResetSpawn(due, spawns, t, last) == IF due THEN t ELSE last

\* ------------------------------------------------------------ history
RECURSIVE CountClaims(_, _)
CountClaims(cc, picks) ==
  IF picks = <<>> THEN cc
  ELSE CountClaims([cc EXCEPT ![Head(picks).coin] = @ + 1], Tail(picks))

NoTick == [at |-> -1, drained |-> <<>>, colls |-> <<>>,
           picks |-> <<>>, spawned |-> 0, full |-> FALSE, due |-> FALSE]

NoSend == [ws |-> 0, type |-> "none", id |-> 0, t |-> 0, when |-> 0, sent |-> FALSE]

\* ------------------------------------------------------------ Init
Init ==
  /\ now = 0
  /\ nextTickAt = PHYS_DT
  /\ nextPlayerId = 1
  /\ players = <<>>
  /\ coins = <<>>
  /\ nextCoinId = 1
  /\ lastSpawn = 0
  /\ inboundQueue = <<>>
  /\ clients = {}
  /\ timers = <<>>
  /\ lastSend = NoSend
  /\ received = <<>>
  /\ tickInfo = NoTick
  /\ coinClaims = <<>>
  /\ madeAt = -1
  /\ dueAt = 0
  /\ nEvents = 0
  /\ nStalls = 0

\* ------------------------------------------------------------ the event loop
\* a timer callback (the setInterval tick, a setTimeout send) is due
TimerDue ==
  \/ now >= nextTickAt
  \/ timers # <<>> /\ Head(timers).fireAt <= now

\* each turn of the event loop runs the due timer callbacks before it polls
\* the sockets, so socket events are handled with no timer callback due
Polling == ~TimerDue

\* ------------------------------------------------------------ wss.on('connection')
Welcome(id, t) == [type |-> "welcome", id |-> id, t |-> t, players |-> <<>>, coins |-> <<>>]

Connect(pos) ==
  /\ Polling
  /\ nextPlayerId <= MaxPlayers
  /\ nEvents < MaxEvents
  /\ nEvents' = nEvents + 1
  /\ LET id == nextPlayerId
         ps == Put(players, id,
                   [x |-> pos[1], y |-> pos[2], score |-> 0, input |-> NoInput,
                    inputSpeedLoss |-> 0])
         cl == clients \cup {id}
     IN /\ nextPlayerId' = PostIncrement(id)
        /\ players' = ps
        /\ clients' = cl
        /\ timers' = broadcastState(sendWithLatency(timers, id, Welcome(id, now), now),
                                    ps, coins, cl, now)
        /\ received' = Put(received, id, [welcome |-> 0, snapshot |-> FALSE])
  /\ UNCHANGED <<now, nextTickAt, coins, nextCoinId, lastSpawn, inboundQueue, lastSend,
                 tickInfo, coinClaims, madeAt, dueAt, nStalls>>

\* ------------------------------------------------------------ ws.on('message')
Message(ws, raw) ==
  /\ Polling
  /\ ws \in clients
  /\ nEvents < MaxEvents
  /\ nEvents' = nEvents + 1
  /\ inboundQueue' = queueInbound(inboundQueue, ws, raw, now)
  /\ UNCHANGED <<now, nextTickAt, nextPlayerId, players, coins, nextCoinId, lastSpawn,
                 clients, timers, lastSend, received, tickInfo, coinClaims, madeAt,
                 dueAt, nStalls>>

\* ------------------------------------------------------------ ws.on('close')
Close(ws) ==
  /\ Polling
  /\ ws \in clients
  /\ nEvents < MaxEvents
  /\ nEvents' = nEvents + 1
  /\ LET ps == Delete(players, ws)
         cl == clients \ {ws}
     IN /\ players' = ps
        /\ clients' = cl
        /\ timers' = broadcastState(timers, ps, coins, cl, now)
  /\ UNCHANGED <<now, nextTickAt, nextPlayerId, coins, nextCoinId, lastSpawn,
                 inboundQueue, lastSend, received, tickInfo, coinClaims, madeAt,
                 dueAt, nStalls>>

\* ------------------------------------------------------------ setTimeout callback
Deliver ==
  /\ timers # <<>>
  /\ Head(timers).fireAt <= now
  /\ LET tm == Head(timers)
         ok == CanSend(tm.ws, clients)
     IN /\ timers' = Tail(timers)
        /\ lastSend' = [ws |-> tm.ws, type |-> tm.msg.type, id |-> tm.msg.id,
                        t |-> tm.msg.t, when |-> now, sent |-> ok]
        /\ received' =
             IF ~ok THEN received
             ELSE IF tm.msg.type = "welcome"
               THEN [received EXCEPT ![tm.ws].welcome = @ + 1]
               ELSE [received EXCEPT ![tm.ws].snapshot = TRUE]
  /\ UNCHANGED <<now, nextTickAt, nextPlayerId, players, coins, nextCoinId, lastSpawn,
                 inboundQueue, clients, tickInfo, coinClaims, madeAt, dueAt,
                 nEvents, nStalls>>

\* ------------------------------------------------------------ setInterval callback
\* variant: the snapshot is built before the other steps of the tick
AtBroadcast_Start(start, end) == start

\* the world broadcastState() reads at the end of the callback: start is the
\* one the callback found, end the one its earlier steps left
AtBroadcast(start, end) == end

\* one run of the callback at time t, the new coin (if one is made) going to
\* pos: what it leaves in each variable it writes
TickStep(q, ps, cs, tm, cl, t, last, cid, cc, pos) ==
  LET dr == processInboundQueue(q, ps, t)
      mv == MovePlayers(dr.players)
      co == CollidePlayers(mv)
      pk == PickupCoins(co.players, cs)
      due == SpawnDue(t, last)
      spawns == due /\ BelowCap(pk.coins)
      cs2 == IF spawns THEN spawnCoin(pk.coins, cid, pos) ELSE pk.coins
      cc2 == CountClaims(cc, pk.picks)
      seen == AtBroadcast([players |-> ps, coins |-> cs],
                          [players |-> pk.players, coins |-> cs2])
  IN [queue |-> dr.queue,
      players |-> pk.players,
      coins |-> cs2,
      nextCoinId |-> IF spawns THEN PostIncrement(cid) ELSE cid,
      lastSpawn |-> ResetSpawn(due, spawns, t, last),
      timers |-> broadcastState(tm, seen.players, seen.coins, cl, t),
      claims |-> IF spawns THEN Put(cc2, cid, 0) ELSE cc2,
      info |-> [at |-> t, drained |-> dr.drained, colls |-> co.colls,
                picks |-> pk.picks, spawned |-> IF spawns THEN cid ELSE 0,
                full |-> due /\ ~spawns, due |-> due]]

Tick(pos) ==
  /\ now >= nextTickAt
  /\ \E r \in {TickStep(inboundQueue, players, coins, timers, clients, now, lastSpawn,
                        nextCoinId, coinClaims, pos)} :
        /\ inboundQueue' = r.queue
        /\ players' = r.players
        /\ coins' = r.coins
        /\ nextCoinId' = r.nextCoinId
        /\ lastSpawn' = r.lastSpawn
        /\ timers' = r.timers
        /\ coinClaims' = r.claims
        /\ madeAt' = IF r.info.spawned # 0 THEN now ELSE madeAt
        /\ dueAt' = IF r.info.due THEN now ELSE dueAt
        /\ tickInfo' = r.info
  /\ nextTickAt' = now + PHYS_DT
  /\ UNCHANGED <<now, nextPlayerId, clients, lastSend, received, nEvents, nStalls>>

\* ------------------------------------------------------------ the clock
\* Time passes by d ms once the callbacks that are due have run.  A timer
\* callback never runs early; it runs late when d carries the clock past its
\* due time.
Advance(d) ==
  /\ nEvents < MaxEvents
  /\ ~TimerDue
  /\ now' = now + d
  /\ nEvents' = nEvents + 1
  /\ UNCHANGED <<nextTickAt, nextPlayerId, players, coins, nextCoinId, lastSpawn,
                 inboundQueue, clients, timers, lastSend, received, tickInfo,
                 coinClaims, madeAt, dueAt, nStalls>>

\* the process is suspended for longer than a spawn interval
Stall ==
  /\ nStalls < MaxStalls
  /\ ~TimerDue
  /\ now' = now + COIN_SPAWN_INTERVAL + PHYS_DT
  /\ nStalls' = nStalls + 1
  /\ UNCHANGED <<nextTickAt, nextPlayerId, players, coins, nextCoinId, lastSpawn,
                 inboundQueue, clients, timers, lastSend, received, tickInfo,
                 coinClaims, madeAt, dueAt, nEvents>>

\* ------------------------------------------------------------ specifications
\* the clock steps: one tick period, or the simulated latency
Steps == {PHYS_DT, SIM_LATENCY_MS}

\* clients that come, steer and go
Next ==
  \/ \E pos \in SpawnPos : Connect(pos)
  \/ \E ws \in clients, raw \in RawSet : Message(ws, raw)
  \/ \E ws \in clients : Close(ws)
  \/ \E pos \in CoinPos : Tick(pos)
  \/ Deliver
  \/ \E d \in Steps : Advance(d)

Spec == Init /\ [][Next]_vars

\* the coins: clients that come in over many spawn intervals
NextCoin ==
  \/ \E pos \in SpawnPos : Connect(pos)
  \/ \E pos \in CoinPos : Tick(pos)
  \/ Deliver
  \/ Stall

SpecCoin == Init /\ [][NextCoin]_vars

\* the spawn timer: the coins, with ticks one period apart between the stalls
NextSpawn ==
  \/ \E pos \in SpawnPos : Connect(pos)
  \/ \E pos \in CoinPos : Tick(pos)
  \/ Deliver
  \/ Advance(PHYS_DT)
  \/ Stall

SpecSpawn == Init /\ [][NextSpawn]_vars

\* the clock steps of a longer game: one tick period, the latency less one
\* tick period, or more than a spawn interval
PlaySteps == {PHYS_DT, SIM_LATENCY_MS - PHYS_DT, COIN_SPAWN_INTERVAL + PHYS_DT}

\* clients that come, steer, collect and go
NextPlay ==
  \/ \E pos \in SpawnPos : Connect(pos)
  \/ \E ws \in clients, raw \in PlayRaws : Message(ws, raw)
  \/ \E ws \in clients : Close(ws)
  \/ \E pos \in CoinPos : Tick(pos)
  \/ Deliver
  \/ \E d \in PlaySteps : Advance(d)

SpecPlay == Init /\ [][NextPlay]_vars

\* ------------------------------------------------------------ claims
InMap(p) ==
  /\ PLAYER_R * SCALE <= p.x /\ p.x <= (MAP_W - PLAYER_R) * SCALE
  /\ PLAYER_R * SCALE <= p.y /\ p.y <= (MAP_H - PLAYER_R) * SCALE

Colls == {tickInfo.colls[i] : i \in 1..Len(tickInfo.colls)}

Drained == {tickInfo.drained[i] : i \in 1..Len(tickInfo.drained)}

Picks == {tickInfo.picks[i] : i \in 1..Len(tickInfo.picks)}

\* C1: in the state a tick leaves, every live player is within
\* [PLAYER_R, MAP_W - PLAYER_R] x [PLAYER_R, MAP_H - PLAYER_R].
C1_PlayersInBounds == \A i \in DOMAIN players : InMap(players[i])

\* C2: a resolved collision between players of equal score displaces the two
\* by the same amount in opposite directions (to within one position unit).
C2_EvenSplit ==
  \A c \in Colls :
    c.s1 = c.s2 => Abs(c.ax + c.bx) <= 1 /\ Abs(c.ay + c.by) <= 1

\* C3: a resolved collision between players of different score displaces the
\* higher-scoring player strictly less than the other, whichever comes first.
C3_HigherScoreMovesLess ==
  \A c \in Colls :
    /\ c.s1 > c.s2 => c.m1 < c.m2
    /\ c.s2 > c.s1 => c.m2 < c.m1

\* C4: the 0.8 multiplier of a collision lasts one tick: after a tick a player
\* holds it only if that very tick resolved a collision of that player.
C4_PenaltyOneTick ==
  \A i \in DOMAIN players :
    players[i].inputSpeedLoss = 80 => \E c \in Colls : c.p1 = i \/ c.p2 = i

\* C5: an envelope enqueued at time T is drained no earlier than
\* T + SIM_LATENCY_MS, and a player's input intent changes only in a tick
\* that drained an envelope of that player's connection.
C5_NoEarlyInput ==
  /\ [](\A e \in Drained : e.at + SIM_LATENCY_MS <= tickInfo.at)
  /\ [][\A i \in DOMAIN players \cap DOMAIN players' :
          players'[i].input # players[i].input =>
            /\ tickInfo'.at = now
            /\ \E k \in 1..Len(tickInfo'.drained) :
                 /\ tickInfo'.drained[k].ws = i
                 /\ tickInfo'.drained[k].at + SIM_LATENCY_MS <= now]_vars

C5_Witness ==
  \E e \in Drained :
    /\ e.raw = RawLeft
    /\ e.ws \in DOMAIN players
    /\ players[e.ws].input.left
    /\ tickInfo.at = e.at + SIM_LATENCY_MS

WellFormed(e) == e.raw.fmt = "json" /\ e.raw.type = "input"

Directions(inp) == <<inp.up, inp.down, inp.left, inp.right>>

\* C6: a tick at time t drains every envelope with processAt <= t, so none is
\* left in the queue; and a live player whose connection had well-formed
\* inputs drained holds the directions of the last of them.
C6_AppliedAtFirstTick ==
  /\ \A k \in 1..Len(inboundQueue) : inboundQueue[k].processAt > tickInfo.at
  /\ \A i \in DOMAIN players :
       \A k \in 1..Len(tickInfo.drained) :
         LET e == tickInfo.drained[k] IN
           (/\ e.ws = i
            /\ WellFormed(e)
            /\ \A m \in (k + 1)..Len(tickInfo.drained) :
                 ~(tickInfo.drained[m].ws = i /\ WellFormed(tickInfo.drained[m])))
           => Directions(players[i].input) =
                <<e.raw.up = 1, e.raw.down = 1, e.raw.left = 1, e.raw.right = 1>>

\* two well-formed inputs of one connection drained by one tick, the later
\* one deciding the intent
C6_Witness ==
  /\ Len(tickInfo.drained) = 2
  /\ tickInfo.drained[1].ws = tickInfo.drained[2].ws
  /\ tickInfo.drained[1].raw = RawRight
  /\ tickInfo.drained[2].raw = RawLeft
  /\ tickInfo.drained[1].ws \in DOMAIN players
  /\ players[tickInfo.drained[1].ws].input.left
  /\ ~players[tickInfo.drained[1].ws].input.right

\* C7: a snapshot built at time T is handed to ws.send no earlier than
\* T + SIM_LATENCY_MS.
C7_NoEarlySnapshot ==
  (lastSend.sent /\ lastSend.type = "snapshot") =>
    lastSend.when >= lastSend.t + SIM_LATENCY_MS

C7_Witness ==
  /\ lastSend.sent
  /\ lastSend.type = "snapshot"
  /\ lastSend.when = lastSend.t + SIM_LATENCY_MS

\* C8: nothing is ever sent on a closed connection; a send callback that finds
\* its connection closed sends nothing, is not scheduled again, and leaves the
\* other pending sends as they are.
C8_ClosedNeverReceives ==
  [][/\ \A ws \in DOMAIN received : ws \notin clients => received'[ws] = received[ws]
     /\ Len(timers') < Len(timers) =>
          /\ timers' = Tail(timers)
          /\ lastSend'.ws = Head(timers).ws
          /\ lastSend'.sent <=> Head(timers).ws \in clients]_vars

\* a send to a closed connection was dropped while another client of the
\* same snapshot is still served
C8_Witness ==
  /\ ~lastSend.sent
  /\ lastSend.type = "snapshot"
  /\ lastSend.ws \notin clients
  /\ \E k \in 1..Len(timers) :
       /\ timers[k].ws \in clients
       /\ timers[k].msg.type = "snapshot"
       /\ timers[k].msg.t = lastSend.t

RECURSIVE SumScores(_, _)
SumScores(ps, ids) ==
  IF ids = {} THEN 0
  ELSE LET i == CHOOSE a \in ids : TRUE
       IN ps[i].score + SumScores(ps, ids \ {i})

\* C9: a coin raises at most one score, by one, and is gone once it has: the
\* scores add up to the number of coins consumed.
C9_SingleConsumption ==
  /\ \A c \in DOMAIN coinClaims : coinClaims[c] <= 1
  /\ \A c \in DOMAIN coinClaims : coinClaims[c] = 1 => c \notin DOMAIN coins
  /\ SumScores(players, DOMAIN players) =
       Cardinality({c \in DOMAIN coinClaims : coinClaims[c] >= 1})

\* a coin within reach of two players in the scan that consumed it
C9_Witness ==
  \E k \in Picks : Cardinality(k.near) >= 2 /\ coinClaims[k.coin] = 1

\* C10: there are never more than MAX_COINS live coins.
C10_CoinCap == Cardinality(DOMAIN coins) <= MAX_COINS

\* a spawn fell due with the population at the cap, and made no coin
C10_Witness == tickInfo.full /\ Cardinality(DOMAIN coins) = MAX_COINS

\* C11: a tick that finds more than COIN_SPAWN_INTERVAL elapsed since
\* lastSpawn sets lastSpawn to the current time whether or not it made a
\* coin; a tick makes at most one coin; a coin is made more than
\* COIN_SPAWN_INTERVAL after the previous one, and more than
\* COIN_SPAWN_INTERVAL after the last tick that found the interval elapsed,
\* so an interval that elapsed at the cap is not made up for later.
C11_SpawnTimerResets ==
  [][nextTickAt' # nextTickAt =>
       /\ now - lastSpawn > COIN_SPAWN_INTERVAL => lastSpawn' = now
       /\ Cardinality(DOMAIN coins' \ DOMAIN coins) <= 1
       /\ DOMAIN coins' \ DOMAIN coins # {} =>
            /\ now - dueAt > COIN_SPAWN_INTERVAL
            /\ madeAt = -1 \/ now - madeAt > COIN_SPAWN_INTERVAL]_vars

\* the interval last elapsed with the population at the cap; a tick within
\* the next interval collects coins and makes none
C11_Witness ==
  /\ tickInfo.picks # <<>>
  /\ tickInfo.spawned = 0
  /\ Cardinality(DOMAIN coins) < MAX_COINS
  /\ dueAt > madeAt
  /\ lastSpawn = dueAt
  /\ tickInfo.at > dueAt
  /\ tickInfo.at - dueAt <= COIN_SPAWN_INTERVAL

\* C12: ids come from counters that only grow and are never reused: every
\* live id is below its counter; an id that enters a mapping was never
\* assigned before; and an id that has left a mapping (a player by
\* disconnect, a coin by pickup) never enters it again.
C12_IdsNeverReused ==
  /\ [](/\ \A i \in DOMAIN players : i < nextPlayerId
        /\ \A c \in DOMAIN coins : c < nextCoinId)
  /\ [][/\ nextPlayerId' >= nextPlayerId
        /\ nextCoinId' >= nextCoinId
        /\ \A i \in DOMAIN players' \ DOMAIN players :
             i \notin DOMAIN received /\ i >= nextPlayerId /\ i < nextPlayerId'
        /\ \A c \in DOMAIN coins' \ DOMAIN coins :
             c \notin DOMAIN coinClaims /\ c >= nextCoinId /\ c < nextCoinId'
        /\ \A i \in DOMAIN received \ DOMAIN players : i \notin DOMAIN players'
        /\ \A c \in DOMAIN coinClaims \ DOMAIN coins : c \notin DOMAIN coins'
        /\ nextPlayerId' > nextPlayerId => DOMAIN players' \ DOMAIN players # {}]_vars

\* a connection made after a disconnect, and a coin made after a pickup
C12_Witness ==
  /\ \E i \in DOMAIN received \ DOMAIN players : \E j \in DOMAIN players : j > i
  /\ \E c \in DOMAIN coinClaims \ DOMAIN coins : \E d \in DOMAIN coins : d > c

\* squared distance between a player and a coin, in pixels squared times
\* SCALE squared
Dist2(p, c) == (p.x - c.x) * (p.x - c.x) + (p.y - c.y) * (p.y - c.y)

Near(p, c) == Dist2(p, c) <= (PLAYER_R + COIN_R) * (PLAYER_R + COIN_R) * SCALE * SCALE

\* the snapshots a step schedules
NewSnapshots ==
  {timers'[k].msg : k \in {j \in (Len(timers) + 1)..Len(timers') :
                             timers'[j].msg.type = "snapshot"}}

\* C13: a coin that is within pickup distance of a player at a tick's scan
\* (the players where the tick leaves them, the coins the tick found) is
\* removed by that tick and counted once; each score rises by the number of
\* coins that player picked; the snapshots scheduled by any step list
\* exactly the live coins, and a coin once removed stays removed, so neither
\* that tick's snapshot nor a later one lists it.
C13_PickedCoinGone ==
  [][/\ nextTickAt' # nextTickAt =>
         /\ \A c \in DOMAIN coins :
              (\E i \in DOMAIN players' : Near(players'[i], coins[c])) =>
                /\ c \notin DOMAIN coins'
                /\ coinClaims'[c] = 1
                /\ Cardinality({k \in 1..Len(tickInfo'.picks) :
                                   tickInfo'.picks[k].coin = c}) = 1
                /\ \A m \in NewSnapshots : c \notin DOMAIN m.coins
         /\ \A i \in DOMAIN players :
              players'[i].score = players[i].score +
                Cardinality({k \in 1..Len(tickInfo'.picks) : tickInfo'.picks[k].by = i})
         /\ \A k \in 1..Len(tickInfo'.picks) :
              LET pk == tickInfo'.picks[k]
              IN pk.coin \in DOMAIN coins /\ Near(players'[pk.by], coins[pk.coin])
     /\ \A m \in NewSnapshots : DOMAIN m.coins = DOMAIN coins'
     /\ \A c \in DOMAIN coinClaims \ DOMAIN coins : c \notin DOMAIN coins']_vars

\* a tick picked a coin; its snapshot, still pending, shows the score and
\* not the coin
C13_Witness ==
  \E pk \in Picks : \E k \in 1..Len(timers) :
    /\ timers[k].msg.type = "snapshot"
    /\ timers[k].msg.t >= tickInfo.at
    /\ pk.coin \notin DOMAIN timers[k].msg.coins
    /\ pk.by \in DOMAIN timers[k].msg.players
    /\ timers[k].msg.players[pk.by].score >= 1

\* an envelope as it was enqueued
Envelope(h) == [processAt |-> h.processAt, ws |-> h.ws, raw |-> h.raw, at |-> h.at]

\* C14: a tick at time now handles exactly the envelopes with
\* processAt <= now, in the order they were enqueued, and leaves exactly the
\* others in the queue in their order; no other step takes an envelope out of
\* the queue or reorders it, so every envelope is handled once.
C14_DrainInOrder ==
  [][/\ nextTickAt' # nextTickAt =>
         /\ [k \in 1..Len(tickInfo'.drained) |-> Envelope(tickInfo'.drained[k])] =
              SelectSeq(inboundQueue, LAMBDA e : e.processAt <= now)
         /\ inboundQueue' = SelectSeq(inboundQueue, LAMBDA e : e.processAt > now)
     /\ nextTickAt' = nextTickAt =>
         /\ Len(inboundQueue') >= Len(inboundQueue)
         /\ SubSeq(inboundQueue', 1, Len(inboundQueue)) = inboundQueue]_vars

\* one drain that handled the envelopes that were ready and left those
\* enqueued later, before the tick, for a later drain
C14_Witness ==
  /\ Len(tickInfo.drained) >= 1
  /\ inboundQueue # <<>>
  /\ \A k \in 1..Len(inboundQueue) :
       /\ inboundQueue[k].processAt > tickInfo.at
       /\ inboundQueue[k].at < tickInfo.at
       /\ inboundQueue[k].at > tickInfo.drained[1].at

\* what C15 calls an envelope that must be dropped, ps being the players the
\* drain found
Dropped(h, ps) ==
  \/ h.raw.fmt # "json"
  \/ h.raw.type # "input"
  \/ h.ws \notin DOMAIN ps

\* players the tick's collision pass did not touch
Untouched(info) ==
  {i \in DOMAIN players' : \A k \in 1..Len(info.colls) :
                              info.colls[k].p1 # i /\ info.colls[k].p2 # i}

\* C15: in a tick, handling an envelope that does not parse, is not an input,
\* or whose connection has no player changes no player; the envelope is gone
\* from the queue with every other ready one; the inputs drained after it
\* still decide their players' intent; and the tick goes on to move the
\* players, to reset the spawn timer if it is due and to schedule one
\* snapshot of the state it leaves for every client.
C15_BadEnvelopeDropped ==
  [][nextTickAt' # nextTickAt =>
       LET dr == tickInfo'.drained IN
       /\ \A k \in 1..Len(dr) : Dropped(dr[k], players) => ~dr[k].changed
       /\ Len(dr) = Len(SelectSeq(inboundQueue, LAMBDA e : e.processAt <= now))
       /\ \A k \in 1..Len(inboundQueue') : inboundQueue'[k].processAt > now
       /\ DOMAIN players' = DOMAIN players
       /\ \A i \in DOMAIN players :
            IF \E k \in 1..Len(dr) : dr[k].ws = i /\ ~Dropped(dr[k], players)
            THEN LET last == CHOOSE k \in 1..Len(dr) :
                               /\ dr[k].ws = i /\ ~Dropped(dr[k], players)
                               /\ \A m \in (k + 1)..Len(dr) :
                                    ~(dr[m].ws = i /\ ~Dropped(dr[m], players))
                 IN Directions(players'[i].input) =
                      <<dr[last].raw.up = 1, dr[last].raw.down = 1,
                        dr[last].raw.left = 1, dr[last].raw.right = 1>>
            ELSE players'[i].input = players[i].input
       /\ \A i \in Untouched(tickInfo') :
            Directions(players'[i].input) = <<FALSE, FALSE, TRUE, FALSE>> =>
              /\ players'[i].x < players[i].x \/ players'[i].x = PLAYER_R * SCALE
              /\ players'[i].y = players[i].y
       /\ now - lastSpawn > COIN_SPAWN_INTERVAL => lastSpawn' = now
       /\ Len(timers') = Len(timers) + Cardinality(clients)
       /\ \A m \in NewSnapshots : m = Snapshot(players', coins', now)]_vars

\* a tick dropped an envelope, applied an input drained after it, moved the
\* player and scheduled its snapshot
C15_Witness ==
  \E k \in 1..Len(tickInfo.drained) : \E m \in (k + 1)..Len(tickInfo.drained) :
    /\ tickInfo.drained[k].raw \in {RawBad, RawChat, RawNull}
    /\ ~tickInfo.drained[k].changed
    /\ tickInfo.drained[m].raw = RawLeft
    /\ tickInfo.drained[m].changed
    /\ tickInfo.colls = <<>>
    /\ tickInfo.drained[m].ws \in DOMAIN players
    /\ \A pos \in SpawnPos : players[tickInfo.drained[m].ws].x < pos[1]
    /\ \E j \in 1..Len(timers) :
         /\ timers[j].msg.type = "snapshot"
         /\ timers[j].msg.t = tickInfo.at
         /\ timers[j].msg.players = Snapshot(players, coins, tickInfo.at).players

\* C16: the ratio p2.score / (p1.score + p2.score + 1) of every resolved
\* collision is strictly between 0 and 1.
C16_RatioStrictlyInside ==
  \A c \in Colls :
    LET ratio == Share2(c.s1, c.s2)
    IN 0 < ratio.num /\ ratio.num < ratio.den

\* player i as the movement step leaves it when it starts from the position
\* the tick found and the intent the tick leaves
Moved(i) == MovePlayer([players[i] EXCEPT !.input = players'[i].input])

\* C17: a tick is one step of the server, and its effects are those of drain
\* and apply, then movement and clamp, then player-player collision, then
\* pickup, then spawn, then broadcast: a player no collision touched stands
\* where the drained intent moved it; the first collision is decided on the
\* moved positions; the coins left are out of reach of the players where the
\* collisions left them; the spawn counts the coins left by the pickup; and
\* the snapshots show the state the tick ends with.  No player joins or
\* leaves inside a tick, every snapshot any step schedules is the state that
\* step ends with, and outside ticks no position, score, intent or coin changes.
C17_TickStepsInOrder ==
  [][/\ nextTickAt' # nextTickAt =>
         /\ DOMAIN players' = DOMAIN players /\ clients' = clients
         /\ \A i \in Untouched(tickInfo') :
              players'[i].x = Moved(i).x /\ players'[i].y = Moved(i).y
         /\ tickInfo'.colls # <<>> =>
              LET c == tickInfo'.colls[1]
              IN c.d2 = (Moved(c.p2).x - Moved(c.p1).x) * (Moved(c.p2).x - Moved(c.p1).x)
                        + (Moved(c.p2).y - Moved(c.p1).y) * (Moved(c.p2).y - Moved(c.p1).y)
         /\ \A c \in DOMAIN coins \cap DOMAIN coins' :
              \A i \in DOMAIN players' : ~Near(players'[i], coins[c])
         /\ now - lastSpawn > COIN_SPAWN_INTERVAL =>
              (DOMAIN coins' \ DOMAIN coins # {}
                 <=> Cardinality(DOMAIN coins \cap DOMAIN coins') < MAX_COINS)
         /\ Len(timers') = Len(timers) + Cardinality(clients)
     /\ \A m \in NewSnapshots : m = Snapshot(players', coins', now)
     /\ nextTickAt' = nextTickAt =>
         /\ coins' = coins
         /\ \A i \in DOMAIN players \cap DOMAIN players' : players'[i] = players[i]]_vars

\* one tick in which every step acted: an input drained and applied, a
\* collision resolved, a coin picked up, a coin made, and the snapshot of it
\* all scheduled
C17_Witness ==
  /\ \E k \in 1..Len(tickInfo.drained) : tickInfo.drained[k].changed
  /\ tickInfo.colls # <<>>
  /\ tickInfo.picks # <<>>
  /\ tickInfo.spawned \in DOMAIN coins
  /\ \E j \in 1..Len(timers) :
       /\ timers[j].msg = Snapshot(players, coins, tickInfo.at)
       /\ tickInfo.spawned \in DOMAIN timers[j].msg.coins
       /\ \E i \in DOMAIN players : players[i].input.left /\ players[i].score >= 1

\* C18: no snapshot, whichever handler built it, lists a coin within pickup
\* distance of a player it lists.
C18_NoCoinInReachInSnapshot ==
  \A k \in 1..Len(timers) :
    timers[k].msg.type = "snapshot" =>
      \A c \in DOMAIN timers[k].msg.coins : \A i \in DOMAIN timers[k].msg.players :
        ~Near(timers[k].msg.players[i], timers[k].msg.coins[c])

\* C19: the intent of a player changes only in a tick that drained an
\* envelope of that player's own connection; a new player starts with no
\* intent whatever the queue holds; and an envelope whose connection has no
\* player any more changes nobody.
C19_InputOnlyOwnPlayer ==
  [][/\ \A i \in DOMAIN players \cap DOMAIN players' :
         players'[i].input # players[i].input =>
           /\ nextTickAt' # nextTickAt
           /\ \E k \in 1..Len(tickInfo'.drained) :
                tickInfo'.drained[k].ws = i /\ tickInfo'.drained[k].changed
     /\ \A i \in DOMAIN players' \ DOMAIN players : players'[i].input = NoInput
     /\ nextTickAt' # nextTickAt =>
         \A k \in 1..Len(tickInfo'.drained) :
           tickInfo'.drained[k].ws \notin DOMAIN players => ~tickInfo'.drained[k].changed]_vars

\* an input of a closed connection was drained while the player of a later
\* connection was live, and left that player without intent
C19_Witness ==
  \E h \in Drained :
    /\ h.raw = RawLeft
    /\ h.ws \notin DOMAIN players
    /\ ~h.changed
    /\ \E j \in DOMAIN players : j > h.ws /\ players[j].input = NoInput

\* C20: a connection is sent at most one welcome, the welcome carries that
\* connection's player id, and no snapshot is sent to a connection that has
\* not been sent its welcome; the pending sends fire in the order they were
\* scheduled.
C20_WelcomeOnceAndFirst ==
  /\ [](/\ \A ws \in DOMAIN received :
             /\ received[ws].welcome <= 1
             /\ received[ws].snapshot => received[ws].welcome = 1
        /\ lastSend.type = "welcome" => lastSend.id = lastSend.ws
        /\ \A k \in 1..Len(timers) : \A m \in (k + 1)..Len(timers) :
             /\ timers[k].fireAt <= timers[m].fireAt
             /\ timers[k].msg.t <= timers[m].msg.t
             /\ timers[m].msg.type = "welcome" =>
                  timers[k].ws # timers[m].ws)
  /\ [][Len(timers') < Len(timers) =>
          /\ timers' = Tail(timers)
          /\ lastSend'.t = Head(timers).msg.t
          /\ lastSend'.type = Head(timers).msg.type]_vars

\* a connection that has been sent its welcome and then a snapshot
C20_Witness ==
  /\ lastSend.sent
  /\ lastSend.type = "snapshot"
  /\ received[lastSend.ws].welcome = 1
  /\ received[lastSend.ws].snapshot

====
